---- MODULE Spec2Model ----
(***************************************************************************)
(* JIS B 0405 general tolerance calculator (src/App.tsx).                  *)
(*                                                                         *)
(* The component holds two pieces of state, the text of the dimension      *)
(* input and the selected tolerance class.  Every change event sets one    *)
(* of them and re-renders: the text is parsed with parseFloat, validated   *)
(* against [0.5, 4000], the tolerance is looked up through a memoised      *)
(* table scan, the limits are derived and the result panel is drawn.       *)
(*                                                                         *)
(* Numbers are decimal values m * 10^k compared and added exactly; the     *)
(* IEEE rounding of the JavaScript doubles is not modelled.                *)
(***************************************************************************)
EXTENDS Integers, Sequences, FiniteSets

VARIABLES dimensionStr, tolClass, dimension, isValidDimension, tolerance,
          upperLimit, lowerLimit, view, prevPanel

vars == <<dimensionStr, tolClass, dimension, isValidDimension, tolerance,
          upperLimit, lowerLimit, view, prevPanel>>

\* Longest text built by typing one character at a time.
MaxLen == 3

----------------------------------------------------------------------------
(* Numbers *)

Num(m, k) == [kind |-> "num", neg |-> FALSE, m |-> m, k |-> k]
NaN == [kind |-> "nan", neg |-> FALSE, m |-> 0, k |-> 0]
Infinity(neg) == [kind |-> "inf", neg |-> neg, m |-> 0, k |-> 0]
null == [kind |-> "null", neg |-> FALSE, m |-> 0, k |-> 0]

Sgn(i) == IF i > 0 THEN 1 ELSE IF i < 0 THEN -1 ELSE 0

RECURSIVE Pow10(_)
Pow10(n) == IF n = 0 THEN 1 ELSE 10 * Pow10(n - 1)

\* Sign of x * 10^n - y for naturals x, y, n, without forming x * 10^n.
RECURSIVE CmpUp(_, _, _)
CmpUp(x, n, y) ==
    IF n = 0 \/ x = 0 THEN Sgn(x - y)
    ELSE IF x > y THEN 1
    ELSE CmpUp(x * 10, n - 1, y)

\* Sign of a - b for two non-negative finite numbers.
CmpMag(a, b) ==
    IF a.k >= b.k THEN CmpUp(a.m, a.k - b.k, b.m)
    ELSE 0 - CmpUp(b.m, b.k - a.k, a.m)

\* Position on the number line: -2 for -Infinity, -1 negative, 0 zero,
\* 1 positive, 2 for +Infinity.
Side(a) ==
    IF a.kind = "inf" THEN (IF a.neg THEN -2 ELSE 2)
    ELSE IF a.m = 0 THEN 0
    ELSE IF a.neg THEN -1 ELSE 1

\* Sign of a - b for two numbers neither of which is NaN.
Order(a, b) ==
    IF Side(a) # Side(b) THEN Sgn(Side(a) - Side(b))
    ELSE IF Side(a) = 1 THEN CmpMag(a, b)
    ELSE IF Side(a) = -1 THEN CmpMag(b, a)
    ELSE 0

isNaN(a) == a.kind = "nan"

\* The relational operators of the language: false when an operand is NaN.
Ge(a, b) == ~isNaN(a) /\ ~isNaN(b) /\ Order(a, b) >= 0
Le(a, b) == ~isNaN(a) /\ ~isNaN(b) /\ Order(a, b) <= 0
Gt(a, b) == ~isNaN(a) /\ ~isNaN(b) /\ Order(a, b) > 0
Lt(a, b) == ~isNaN(a) /\ ~isNaN(b) /\ Order(a, b) < 0
StrictEq(a, b) == ~isNaN(a) /\ ~isNaN(b) /\ Order(a, b) = 0

\* Object.is, the comparison useMemo applies to its dependencies.
ObjectIs(a, b) ==
    IF isNaN(a) \/ isNaN(b) THEN isNaN(a) /\ isNaN(b)
    ELSE Order(a, b) = 0 /\ (Side(a) = 0 => a.neg = b.neg)

Min(i, j) == IF i <= j THEN i ELSE j

\* a + b and a - b for finite numbers, a and b non-negative.
Add(a, b) ==
    LET k == Min(a.k, b.k)
    IN  Num(a.m * Pow10(a.k - k) + b.m * Pow10(b.k - k), k)

Sub(a, b) ==
    LET k == Min(a.k, b.k)
        n == a.m * Pow10(a.k - k) - b.m * Pow10(b.k - k)
    IN  [kind |-> "num", neg |-> n < 0, m |-> IF n < 0 THEN 0 - n ELSE n,
         k |-> k]

----------------------------------------------------------------------------
(* parseFloat *)

Digits == {"0", "1", "2", "3", "4", "5", "6", "7", "8", "9"}

DigitVal(c) ==
    CASE c = "0" -> 0 [] c = "1" -> 1 [] c = "2" -> 2 [] c = "3" -> 3
      [] c = "4" -> 4 [] c = "5" -> 5 [] c = "6" -> 6 [] c = "7" -> 7
      [] c = "8" -> 8 [] c = "9" -> 9

Drop(s, n) == SubSeq(s, n + 1, Len(s))
Take(s, n) == SubSeq(s, 1, n)

RECURSIVE TrimLeft(_)
TrimLeft(s) ==
    IF Len(s) > 0 /\ s[1] = " " THEN TrimLeft(Tail(s)) ELSE s

\* Number of leading decimal digits of s.
RECURSIVE DigitsLen(_)
DigitsLen(s) ==
    IF Len(s) > 0 /\ s[1] \in Digits THEN 1 + DigitsLen(Tail(s)) ELSE 0

\* Value of a sequence of decimal digits.
RECURSIVE DigitsValue(_)
DigitsValue(s) ==
    IF Len(s) = 0 THEN 0
    ELSE 10 * DigitsValue(Take(s, Len(s) - 1)) + DigitVal(s[Len(s)])

InfinityText == <<"I", "n", "f", "i", "n", "i", "t", "y">>

StartsWith(s, p) == Len(s) >= Len(p) /\ Take(s, Len(p)) = p

\* parseFloat: the value of the longest prefix of the trimmed text that is
\* a decimal literal, NaN when there is none.
parseFloat(s) ==
    LET t == TrimLeft(s)
        hasSign == Len(t) > 0 /\ t[1] \in {"+", "-"}
        neg == hasSign /\ t[1] = "-"
        u == IF hasSign THEN Tail(t) ELSE t
        n1 == DigitsLen(u)
        afterInt == Drop(u, n1)
        hasDot == Len(afterInt) > 0 /\ afterInt[1] = "."
        fracText == IF hasDot THEN Tail(afterInt) ELSE <<>>
        n2 == DigitsLen(fracText)
        afterFrac == IF hasDot THEN Drop(fracText, n2) ELSE afterInt
        hasE == Len(afterFrac) > 0 /\ afterFrac[1] \in {"e", "E"}
        x == IF hasE THEN Tail(afterFrac) ELSE <<>>
        eSign == Len(x) > 0 /\ x[1] \in {"+", "-"}
        eNeg == eSign /\ x[1] = "-"
        y == IF eSign THEN Tail(x) ELSE x
        n3 == DigitsLen(y)
        exp == IF eNeg THEN 0 - DigitsValue(Take(y, n3))
               ELSE DigitsValue(Take(y, n3))
    IN  IF StartsWith(u, InfinityText) THEN Infinity(neg)
        ELSE IF n1 + n2 = 0 THEN NaN
        ELSE [kind |-> "num", neg |-> neg,
              m |-> DigitsValue(Take(u, n1) \o Take(fracText, n2)),
              k |-> exp - n2]

----------------------------------------------------------------------------
(* The table *)

ToleranceClass == {"f", "m", "c", "v"}

toleranceTable == <<
    [min |-> Num(5, -1), max |-> Num(3, 0),
     tolerances |-> [f |-> Num(5, -2), m |-> Num(1, -1), c |-> Num(2, -1), v |-> null]],
    [min |-> Num(3, 0), max |-> Num(6, 0),
     tolerances |-> [f |-> Num(5, -2), m |-> Num(1, -1), c |-> Num(3, -1), v |-> Num(5, -1)]],
    [min |-> Num(6, 0), max |-> Num(30, 0),
     tolerances |-> [f |-> Num(1, -1), m |-> Num(2, -1), c |-> Num(5, -1), v |-> Num(1, 0)]],
    [min |-> Num(30, 0), max |-> Num(120, 0),
     tolerances |-> [f |-> Num(15, -2), m |-> Num(3, -1), c |-> Num(8, -1), v |-> Num(15, -1)]],
    [min |-> Num(120, 0), max |-> Num(400, 0),
     tolerances |-> [f |-> Num(2, -1), m |-> Num(5, -1), c |-> Num(12, -1), v |-> Num(25, -1)]],
    [min |-> Num(400, 0), max |-> Num(1000, 0),
     tolerances |-> [f |-> Num(3, -1), m |-> Num(8, -1), c |-> Num(2, 0), v |-> Num(4, 0)]],
    [min |-> Num(1000, 0), max |-> Num(2000, 0),
     tolerances |-> [f |-> Num(5, -1), m |-> Num(12, -1), c |-> Num(3, 0), v |-> Num(6, 0)]],
    [min |-> Num(2000, 0), max |-> Num(4000, 0),
     tolerances |-> [f |-> null, m |-> Num(2, 0), c |-> Num(4, 0), v |-> Num(8, 0)]] >>

----------------------------------------------------------------------------
(* The component *)

\* isValidDimension with the lower bound excluded.
IsValid_ExclusiveLow(d) == ~isNaN(d) /\ Gt(d, Num(5, -1)) /\ Le(d, Num(4000, 0))

\* isValidDimension of a parsed dimension.
IsValid(d) == ~isNaN(d) /\ Ge(d, Num(5, -1)) /\ Le(d, Num(4000, 0))

\* The find predicate with the upper end of every range excluded.
InRange_ExclusiveHigh(r, d) ==
    IF StrictEq(r.min, Num(5, -1))
    THEN Ge(d, Num(5, -1)) /\ Lt(d, Num(3, 0))
    ELSE Gt(d, r.min) /\ Lt(d, r.max)

\* The find predicate without the special case of the first range.
InRange_NoFirstCase(r, d) == Gt(d, r.min) /\ Le(d, r.max)

\* The find predicate with ranges closed below and open above.
InRange_ClosedLow(r, d) ==
    IF StrictEq(r.min, Num(5, -1))
    THEN Ge(d, Num(5, -1)) /\ Le(d, Num(3, 0))
    ELSE Ge(d, r.min) /\ Lt(d, r.max)

\* The find predicate with every range closed at both ends.
InRange_ClosedBoth(r, d) ==
    IF StrictEq(r.min, Num(5, -1))
    THEN Ge(d, Num(5, -1)) /\ Le(d, Num(3, 0))
    ELSE Ge(d, r.min) /\ Le(d, r.max)

\* The predicate handed to toleranceTable.find.
InRange(r, d) ==
    IF StrictEq(r.min, Num(5, -1))
    THEN Ge(d, Num(5, -1)) /\ Le(d, Num(3, 0))
    ELSE Gt(d, r.min) /\ Le(d, r.max)

\* Array.prototype.find over the table: the index of the first range whose
\* predicate holds, 0 when there is none (undefined).
find(d) ==
    LET hits == {i \in 1..Len(toleranceTable) : InRange(toleranceTable[i], d)}
    IN  IF hits = {} THEN 0
        ELSE CHOOSE i \in hits : \A j \in hits : i <= j

\* The callback of useMemo.
ComputeTolerance(d, cls, valid) ==
    IF ~valid THEN null
    ELSE LET i == find(d)
         IN  IF i = 0 THEN null ELSE toleranceTable[i].tolerances[cls]

\* A dependency list that leaves out tolClass.
SameDeps_NoClass(d0, c0, v0, d1, c1, v1) == ObjectIs(d0, d1) /\ v0 = v1

\* useMemo keeps the cached value when every dependency of the list
\* [dimension, tolClass, isValidDimension] is Object.is-equal to its value
\* at the previous render.
SameDeps(d0, c0, v0, d1, c1, v1) == ObjectIs(d0, d1) /\ c0 = c1 /\ v0 = v1

\* Number.prototype.toFixed(3) followed by Number(): the nearest multiple of
\* 0.001, ties upwards, as a number.
Round3(a) ==
    IF a.k >= -3 THEN a
    ELSE LET p == Pow10(-3 - a.k)
             q == a.m \div p
             r == a.m % p
         IN  [kind |-> "num", neg |-> a.neg,
              m |-> IF 2 * r >= p THEN q + 1 ELSE q, k |-> -3]

\* The upper limit rounded where it is computed.
UpperLimit_Rounded(d, t) == IF t # null THEN Round3(Add(d, t)) ELSE null

\* The lower limit computed with the sign of the upper one.
LowerLimit_Plus(d, t) == IF t # null THEN Add(d, t) ELSE null

UpperLimit(d, t) == IF t # null THEN Add(d, t) ELSE null
LowerLimit(d, t) == IF t # null THEN Sub(d, t) ELSE null

DigitChars == <<"0", "1", "2", "3", "4", "5", "6", "7", "8", "9">>

\* The decimal digits of a natural number.
RECURSIVE NatToText(_)
NatToText(n) ==
    IF n < 10 THEN <<DigitChars[n + 1]>>
    ELSE NatToText(n \div 10) \o <<DigitChars[(n % 10) + 1]>>

\* The last w decimal digits of f, with leading zeros.
RECURSIVE Padded(_, _)
Padded(f, w) ==
    IF w = 0 THEN <<>>
    ELSE Padded(f \div 10, w - 1) \o <<DigitChars[(f % 10) + 1]>>

\* Fraction digits of f written on w places, trailing zeros removed.
RECURSIVE FracText(_, _)
FracText(f, w) ==
    IF f = 0 THEN <<>>
    ELSE IF f % 10 = 0 THEN FracText(f \div 10, w - 1)
    ELSE Padded(f, w)

\* Number.prototype.toString of a number with at most three decimals.
NumberToString(a) ==
    LET w == IF a.k >= 0 THEN 0 ELSE 0 - a.k
        whole == IF a.k >= 0 THEN a.m * Pow10(a.k) ELSE a.m \div Pow10(w)
        frac == IF a.k >= 0 THEN 0 ELSE a.m % Pow10(w)
        sign == IF a.neg /\ a.m # 0 THEN <<"-">> ELSE <<>>
        tail == FracText(frac, w)
    IN  sign \o NatToText(whole) \o (IF tail = <<>> THEN <<>> ELSE <<".">> \o tail)

formatNumber(a) == IF a = null THEN <<"-">> ELSE NumberToString(Round3(a))

\* The two texts of the result panel shown in place of a result.
MsgUnspecified == "no tolerance is specified for this condition"
MsgInvalid == "enter a valid dimension"

\* The inline message with the validity test inverted.
InlineAlert_Inverted(str, valid) == str # <<>> /\ valid

\* The inline validation message under the input is rendered.
InlineAlert(str, valid) == str # <<>> /\ ~valid

\* One text for both absence states.
PanelMessage_Single(valid) == MsgInvalid

\* The text of the result panel when no result is shown.
PanelMessage(valid) == IF valid THEN MsgUnspecified ELSE MsgInvalid

\* What the render draws.
Draw(str, valid, t, up, lo) ==
    IF t = null
    THEN [alert |-> InlineAlert(str, valid), panel |-> "message",
          message |-> PanelMessage(valid),
          tolerance |-> <<>>, upperLimit |-> <<>>, lowerLimit |-> <<>>]
    ELSE [alert |-> InlineAlert(str, valid), panel |-> "result",
          message |-> "",
          tolerance |-> formatNumber(t), upperLimit |-> formatNumber(up),
          lowerLimit |-> formatNumber(lo)]

\* The outcome a view shows: a result or one of the two absence states.
Outcome(v) ==
    IF v.panel = "result" THEN "result"
    ELSE IF v.message = MsgInvalid THEN "invalid" ELSE "unspecified"

\* One render of App with the state dimensionStr', tolClass'.
Render ==
    /\ dimension' = parseFloat(dimensionStr')
    /\ isValidDimension' = IsValid(dimension')
    /\ tolerance' =
         IF SameDeps(dimension, tolClass, isValidDimension,
                     dimension', tolClass', isValidDimension')
         THEN tolerance
         ELSE ComputeTolerance(dimension', tolClass', isValidDimension')
    /\ upperLimit' = UpperLimit(dimension', tolerance')
    /\ lowerLimit' = LowerLimit(dimension', tolerance')
    /\ view' = Draw(dimensionStr', isValidDimension', tolerance',
                    upperLimit', lowerLimit')
    /\ prevPanel' = Outcome(view)

\* Characters typed into the input.
Keys == {"0", "3", "5", ".", "e", "x"}

\* Texts set in one step.
Samples == {
    <<"3">>, <<"0", ".", "4">>, <<"0", ".", "5">>, <<"4", "0", "0", "0">>,
    <<"3", "0", "0", "0">>, <<"1", "0">>, <<"3", ".", "0", "0", "0", "1">>,
    <<"6">>, <<"3", "0">>, <<"1", "2", "0">>, <<"4", "0", "0">>,
    <<"1", "0", "0", "0">>, <<"2", "0", "0", "0">>,
    <<"4", "0", "0", "0", ".", "0", "0", "0", "1">>,
    <<"6", ".", "0", "0", "0", "1">>, <<"2", ".", "9", "5">>,
    <<" ", "3">>, <<" ">>, <<"+", "1", "E", "+", "2">>,
    <<"-", "3">>, <<"5", "e", "-", "1">>, <<"4", "e", "3">>,
    <<"a", "b", "c">>, InfinityText, <<"-">> \o InfinityText }

\* The values an onChange event of the input can carry from the text s:
\* s with one character typed or erased at its end, or a whole new text.
Inputs(s) ==
    Samples
    \cup (IF Len(s) < MaxLen THEN {s \o <<c>> : c \in Keys} ELSE {})
    \cup (IF Len(s) > 0 THEN {Take(s, Len(s) - 1)} ELSE {})

Init ==
    /\ dimensionStr = <<"3">>
    /\ tolClass = "m"
    /\ dimension = parseFloat(dimensionStr)
    /\ isValidDimension = IsValid(dimension)
    /\ tolerance = ComputeTolerance(dimension, tolClass, isValidDimension)
    /\ upperLimit = UpperLimit(dimension, tolerance)
    /\ lowerLimit = LowerLimit(dimension, tolerance)
    /\ view = Draw(dimensionStr, isValidDimension, tolerance, upperLimit,
                   lowerLimit)
    /\ prevPanel = "none"

\* onChange of the dimension input.
SetDimensionStr ==
    \E value \in Inputs(dimensionStr) :
        /\ dimensionStr' = value
        /\ tolClass' = tolClass
        /\ Render

\* onChange of a tolerance class radio button.
SetTolClass ==
    \E value \in ToleranceClass :
        /\ tolClass' = value
        /\ dimensionStr' = dimensionStr
        /\ Render

Next == SetDimensionStr \/ SetTolClass

Spec == Init /\ [][Next]_vars

----------------------------------------------------------------------------
(* Properties *)

\* The range i of the table defines a value for the class cls.
Defines(i, cls) == toleranceTable[i].tolerances[cls] # null

\* The ranges of the table whose membership test the dimension d passes.
Matching(d) == {i \in 1..Len(toleranceTable) : InRange(toleranceTable[i], d)}

\* d is a number of the domain [0.5, 4000].
InDomain(d) ==
    /\ d.kind = "num"
    /\ Order(d, Num(5, -1)) >= 0
    /\ Order(d, Num(4000, 0)) <= 0

\* C1: for a dimension d with 0.5 <= d <= 4000 and a class for which the
\* matching range defines a value, the tolerance is a positive number and
\* lowerLimit < d < upperLimit, both strict.
C1_PositiveToleranceStrictLimits ==
    (InDomain(dimension) /\ \E i \in Matching(dimension) : Defines(i, tolClass))
    => /\ tolerance # null /\ upperLimit # null /\ lowerLimit # null
       /\ Order(tolerance, Num(0, 0)) > 0
       /\ Order(lowerLimit, dimension) < 0
       /\ Order(dimension, upperLimit) < 0

C1_Witness ==
    /\ dimensionStr = <<"4", "0", "0", "0">>
    /\ tolClass = "v"
    /\ view.panel = "result"
    /\ Order(upperLimit, Num(4008, 0)) = 0

\* C2: every (text, class) pair shows exactly one of a numeric result with
\* both limits, the invalid-dimension message or the unspecified-tolerance
\* message; invalid exactly when the text fails validation, unspecified
\* exactly when it passes and the table has no value, and the two messages
\* differ.
C2_ThreeDistinctOutcomes ==
    LET valid == InDomain(parseFloat(dimensionStr))
        defined == \E i \in Matching(parseFloat(dimensionStr)) : Defines(i, tolClass)
        result == /\ view.panel = "result"
                  /\ tolerance # null /\ upperLimit # null /\ lowerLimit # null
        invalid == view.panel = "message" /\ view.message = MsgInvalid
        unspecified == view.panel = "message" /\ view.message = MsgUnspecified
    IN  /\ result <=> (valid /\ defined)
        /\ invalid <=> ~valid
        /\ unspecified <=> (valid /\ ~defined)
        /\ ~(invalid /\ unspecified)
        /\ result \/ invalid \/ unspecified

C2_Witness ==
    /\ prevPanel = "invalid"
    /\ view.panel = "message"
    /\ view.message = MsgUnspecified
    /\ isValidDimension

\* C3: a text is accepted exactly when parseFloat gives a number d with
\* 0.5 <= d <= 4000, both bounds included: 0.4, 4000.0001 and texts without
\* a numeric prefix are invalid, 0.5 and 4000 are valid, and 4000 resolves
\* against the last range.
C3_ValidationDomain ==
    /\ dimension = parseFloat(dimensionStr)
    /\ isValidDimension <=> InDomain(dimension)
    /\ dimensionStr \in {<<"0", ".", "4">>, <<"a", "b", "c">>, <<>>,
                         <<"4", "0", "0", "0", ".", "0", "0", "0", "1">>}
       => ~isValidDimension
    /\ dimensionStr \in {<<"0", ".", "5">>, <<"4", "0", "0", "0">>}
       => isValidDimension
    /\ dimensionStr = <<"4", "0", "0", "0">>
       => /\ find(dimension) = Len(toleranceTable)
          /\ tolerance = toleranceTable[Len(toleranceTable)].tolerances[tolClass]

C3_Witness ==
    /\ dimensionStr = <<"0", ".", "5">>
    /\ isValidDimension
    /\ tolClass = "c"
    /\ view.panel = "result"

\* C4: for a valid dimension the outcome is unspecified exactly when the
\* class is v and 0.5 <= d <= 3, or the class is f and 2000 < d <= 4000;
\* every other valid pair shows a numeric tolerance.
C4_UnspecifiedCells ==
    LET hole == \/ /\ tolClass = "v"
                   /\ Order(dimension, Num(3, 0)) <= 0
                \/ /\ tolClass = "f"
                   /\ Order(dimension, Num(2000, 0)) > 0
    IN  /\ isValidDimension =>
            /\ hole <=> (view.panel = "message" /\ view.message = MsgUnspecified)
            /\ ~hole <=> (view.panel = "result" /\ tolerance.kind = "num")
        /\ (dimensionStr = <<"3", "0", "0", "0">> /\ tolClass = "f")
           => (view.panel = "message" /\ view.message = MsgUnspecified)

C4_Witness ==
    /\ dimensionStr = <<"3", "0", "0", "0">>
    /\ tolClass = "f"
    /\ isValidDimension
    /\ tolerance = null

\* C5 as stated: every invalid dimension shows the inline validation message
\* and has no tolerance, upper limit or lower limit.
C5_Original ==
    ~isValidDimension
    => /\ view.alert
       /\ tolerance = null /\ upperLimit = null /\ lowerLimit = null

\* C5: every invalid dimension has no tolerance, upper limit or lower limit
\* whatever the class, and shows the inline validation message exactly when
\* its text is not empty.
C5_InvalidShortCircuits ==
    ~isValidDimension
    => /\ view.alert <=> (dimensionStr # <<>>)
       /\ tolerance = null /\ upperLimit = null /\ lowerLimit = null
       /\ view.panel = "message"

C5_Witness ==
    /\ dimensionStr = <<"0", ".", "4">>
    /\ tolClass = "c"
    /\ view.alert
    /\ tolerance = null

\* C6: d = 3 and d = 0.5 resolve against the first range [0.5, 3], and every
\* d with 3 < d <= 6 resolves against the second range, whatever the class.
C6_BoundaryAtThree ==
    LET first == /\ find(dimension) = 1
                 /\ tolerance = toleranceTable[1].tolerances[tolClass]
        second == /\ find(dimension) = 2
                  /\ tolerance = toleranceTable[2].tolerances[tolClass]
    IN  /\ (isValidDimension /\ Order(dimension, Num(3, 0)) = 0) => first
        /\ (isValidDimension /\ Order(dimension, Num(5, -1)) = 0) => first
        /\ (isValidDimension /\ Order(dimension, Num(3, 0)) > 0
                             /\ Order(dimension, Num(6, 0)) <= 0) => second

C6_Witness ==
    /\ dimensionStr = <<"3", ".", "0", "0", "0", "1">>
    /\ tolClass = "v"
    /\ tolerance = Num(5, -1)
    /\ prevPanel = "unspecified"

\* C7 as stated: a dimension equal to one of the boundaries 6, 30, 120, 400,
\* 1000, 2000 resolves against the range whose min is that value.
C7_Original ==
    \A i \in 2..(Len(toleranceTable) - 1) :
        (isValidDimension /\ Order(dimension, toleranceTable[i].max) = 0)
        => find(dimension) = i + 1

\* C7: a dimension equal to one of the boundaries 6, 30, 120, 400, 1000, 2000
\* resolves against the lower of the two ranges, the one whose max is that
\* value, as the boundary 3 does.
C7_BoundaryInLowerRange ==
    \A i \in 2..(Len(toleranceTable) - 1) :
        (isValidDimension /\ Order(dimension, toleranceTable[i].max) = 0)
        => /\ find(dimension) = i
           /\ tolerance = toleranceTable[i].tolerances[tolClass]

C7_Witness ==
    /\ dimensionStr = <<"6">>
    /\ tolClass = "c"
    /\ tolerance = Num(3, -1)
    /\ view.panel = "result"

\* C8: when the tolerance t is a number the limits are d + t and d - t with
\* no rounding (10 with class m gives 0.2, 10.2 and 9.8); when it is absent
\* both limits are absent; the limits are present exactly when it is.
C8_ExactLimits ==
    /\ tolerance # null
       => /\ upperLimit # null /\ lowerLimit # null
          /\ Order(Sub(upperLimit, dimension), tolerance) = 0
          /\ Order(Sub(dimension, lowerLimit), tolerance) = 0
    /\ tolerance = null => (upperLimit = null /\ lowerLimit = null)
    /\ (dimensionStr = <<"1", "0">> /\ tolClass = "m")
       => /\ tolerance = Num(2, -1)
          /\ Order(upperLimit, Num(102, -1)) = 0
          /\ Order(lowerLimit, Num(98, -1)) = 0

C8_Witness ==
    /\ dimensionStr = <<"1", "0">>
    /\ tolClass = "m"
    /\ upperLimit # null
    /\ Order(upperLimit, Num(102, -1)) = 0

\* What a newly mounted component with the state (str, cls) computes and draws.
Fresh(str, cls) ==
    LET d == parseFloat(str)
        valid == IsValid(d)
        t == ComputeTolerance(d, cls, valid)
        up == UpperLimit(d, t)
        lo == LowerLimit(d, t)
    IN  <<d, valid, t, up, lo, Draw(str, valid, t, up, lo)>>

\* C9: after any sequence of change events the values computed and the view
\* drawn are those a fresh resolution of the current (text, class) pair
\* yields, also after an invalid or unspecified outcome.
C9_NoStateDrift ==
    <<dimension, isValidDimension, tolerance, upperLimit, lowerLimit, view>>
        = Fresh(dimensionStr, tolClass)

C9_Witness ==
    /\ prevPanel = "invalid"
    /\ view.panel = "result"
    /\ dimensionStr # <<"3">>
    /\ tolClass # "m"

\* C10: every valid dimension passes the membership test of exactly one
\* range of the table, so the lookup finds a range.
C10_ExactlyOneRange ==
    isValidDimension
    => /\ Cardinality(Matching(dimension)) = 1
       /\ find(dimension) \in Matching(dimension)

C10_Witness ==
    /\ dimensionStr = <<"2", "0", "0", "0">>
    /\ isValidDimension
    /\ find(dimension) = 7

====
